---- MODULE Spec2Model ----
(***************************************************************************)
(* Model of browsergym/core/task.py: the task lifecycle protocol           *)
(* (AbstractBrowserTask) and its two variants, OpenEndedTask and           *)
(* OnshapeTask.  A task is a Python object; its methods are called by an   *)
(* environment driver on a Playwright page.  Every method call is one      *)
(* atomic action (execution is single-threaded and synchronous).           *)
(***************************************************************************)
EXTENDS Integers, Sequences, FiniteSets, TLC

(***************************************************************************)
(* Bounds of the model.                                                    *)
(***************************************************************************)
MaxCalls == 2      \* lifecycle calls made on one instance, in any order
MaxEpisode == 3    \* calls the driver makes before it ends the episode
MaxChat == 2       \* length of the chat transcript handed to validate
MaxSamples == 2    \* values the caller draws from one instance's RNG
MaxPairCalls == 1  \* lifecycle calls made on a pair of instances in one behaviour

(***************************************************************************)
(* Python values.                                                          *)
(***************************************************************************)
None == "None"
EmptyDict == << >>

Seeds == {0, 1}
Urls == {"https://example.com", "https://example.org"}
Goals == {None, "find the title"}
Emails == {"a@b.c"}
Passwords == {"pw"}
CadIds == {None, "cad1"}

Messages ==
    {[role |-> "user", message |-> "exit"],
     [role |-> "user", message |-> "hi"],
     [role |-> "assistant", message |-> "exit"]}
Chats == UNION {[1..n -> Messages] : n \in 0..MaxChat}

(***************************************************************************)
(* numpy.random.RandomState(seed): a deterministic generator.  Its state   *)
(* is a function of the seed and of the number of draws only; a full       *)
(* period congruential generator stands for the Mersenne twister.          *)
(***************************************************************************)
RandomState(seed) == seed % 16

RandomState_advance(state) == (5 * state + 3) % 16

RandomState_randint(state) == RandomState_advance(state)

(***************************************************************************)
(* The browser's answer to one page operation: how long the operation      *)
(* would need (ms) and what is wrong with the page, if anything.           *)
(***************************************************************************)
Nominal == [dur |-> 1000, fault |-> "none"]

Slow == [dur |-> 7000, fault |-> "none"]
Stalled == [dur |-> 12000, fault |-> "none"]
Absent == [dur |-> 1000, fault |-> "absent"]
Closed == [dur |-> 1000, fault |-> "closed"]

\* the answers that make a difference to a statement of the given kind
AnswersFor(op) ==
    CASE op = "goto"            -> {Nominal, Slow, Stalled, Closed}
      [] op \in {"fill", "click"} -> {Nominal, Slow, Absent, Closed}
      [] op = "press"           -> {Nominal, Closed}
      [] op = "sleep"           -> {Nominal}

(***************************************************************************)
(* playwright.sync_api.Page, as far as the task uses it.                   *)
(***************************************************************************)
NoInputs == [email |-> "", password |-> ""]

\* the environment opens the page with the task's configuration
NewPage(task) ==
    [url |-> "about:blank", inputs |-> NoInputs, default_timeout |-> task.timeout]

Blocked(a, limit) == IF a.dur > limit THEN limit ELSE a.dur

\* page.goto(url, timeout=...)
Page_goto(page, url, timeout, a) ==
    LET ok == a.fault # "closed" /\ a.dur <= timeout
    IN  [ok    |-> ok,
         error |-> IF ok THEN None
                   ELSE IF a.fault = "closed" THEN "TargetClosedError" ELSE "TimeoutError",
         page  |-> IF ok THEN [page EXCEPT !.url = url, !.inputs = NoInputs] ELSE page,
         entry |-> [op |-> "goto", arg |-> url, value |-> None, timeout |-> timeout,
                    delay |-> 0, took |-> Blocked(a, timeout),
                    answer |-> a, ok |-> ok]]

\* page.fill(selector, value), bounded by the page's default timeout
Page_fill(page, selector, value, a) ==
    LET ok == a.fault = "none" /\ a.dur <= page.default_timeout
        field == IF selector = "input[name='email']" THEN "email" ELSE "password"
    IN  [ok    |-> ok,
         error |-> IF ok THEN None
                   ELSE IF a.fault = "closed" THEN "TargetClosedError" ELSE "TimeoutError",
         page  |-> IF ok THEN [page EXCEPT !.inputs[field] = value] ELSE page,
         entry |-> [op |-> "fill", arg |-> selector, value |-> value,
                    timeout |-> page.default_timeout, delay |-> 0,
                    took |-> IF a.fault = "absent" THEN page.default_timeout
                             ELSE Blocked(a, page.default_timeout),
                    answer |-> a, ok |-> ok]]

\* page.click(selector, delay=...), bounded by the page's default timeout
Page_click(page, selector, delay, a) ==
    LET ok == a.fault = "none" /\ a.dur <= page.default_timeout
    IN  [ok    |-> ok,
         error |-> IF ok THEN None
                   ELSE IF a.fault = "closed" THEN "TargetClosedError" ELSE "TimeoutError",
         page  |-> page,
         entry |-> [op |-> "click", arg |-> selector, value |-> None,
                    timeout |-> page.default_timeout, delay |-> delay,
                    took |-> IF a.fault = "absent" THEN page.default_timeout
                             ELSE Blocked(a, page.default_timeout),
                    answer |-> a, ok |-> ok]]

\* page.keyboard.press(key, delay=...): waits for no element and has no timeout
Keyboard_press(page, key, delay, a) ==
    LET ok == a.fault # "closed"
    IN  [ok    |-> ok,
         error |-> IF ok THEN None ELSE "TargetClosedError",
         page  |-> page,
         entry |-> [op |-> "press", arg |-> key, value |-> None, timeout |-> 0,
                    delay |-> delay, took |-> delay, answer |-> a, ok |-> ok]]

\* time.sleep(seconds): never fails, touches no page
time_sleep(page, seconds) ==
    [ok    |-> TRUE,
     error |-> None,
     page  |-> page,
     entry |-> [op |-> "sleep", arg |-> None, value |-> None, timeout |-> 0,
                delay |-> 0, took |-> 1000 * seconds,
                answer |-> Nominal, ok |-> TRUE]]

(***************************************************************************)
(* Outcome of a method call: what it returned or raised, the task and the  *)
(* page as the call left them, the operations it issued (in order) and     *)
(* the chat list as the call left it.                                      *)
(***************************************************************************)
Return(result, self, page, ops, chat) ==
    [outcome |-> "return", error |-> None, result |-> result,
     self |-> self, page |-> page, ops |-> ops, chat |-> chat]

Raise(error, self, page, ops, chat) ==
    [outcome |-> "raise", error |-> error, result |-> None,
     self |-> self, page |-> page, ops |-> ops, chat |-> chat]

(***************************************************************************)
(* class AbstractBrowserTask                                               *)
(***************************************************************************)
AbstractBrowserTask_init(seed) ==
    [random      |-> RandomState(seed),
     viewport    |-> [width |-> 1280, height |-> 720],
     slow_mo     |-> 1000,
     timeout     |-> 5000,
     locale      |-> None,
     timezone_id |-> None]

\* variant: cheat does nothing and returns
AbstractBrowserTask_cheat_pass(self, page, chat_messages) ==
    Return(None, self, page, << >>, chat_messages)

AbstractBrowserTask_cheat(self, page, chat_messages) ==
    Raise("NotImplementedError", self, page, << >>, chat_messages)

AbstractBrowserTask_teardown(self, page) ==
    Return(None, self, page, << >>, << >>)

(***************************************************************************)
(* Statements executed one after the other: the first page operation that  *)
(* raises ends the method, and its exception propagates (nothing in        *)
(* task.py catches).                                                       *)
(***************************************************************************)
Statement(page, stmt, a) ==
    CASE stmt.op = "goto"  -> Page_goto(page, stmt.arg, stmt.timeout, a)
      [] stmt.op = "fill"  -> Page_fill(page, stmt.arg, stmt.value, a)
      [] stmt.op = "click" -> Page_click(page, stmt.arg, stmt.delay, a)
      [] stmt.op = "press" -> Keyboard_press(page, stmt.arg, stmt.delay, a)
      [] stmt.op = "sleep" -> time_sleep(page, stmt.seconds)

RECURSIVE Execute(_, _, _, _, _)
Execute(body, answers, i, page, ops) ==
    IF i > Len(body)
    THEN [ok |-> TRUE, error |-> None, page |-> page, ops |-> ops]
    ELSE CHOOSE end \in
             {IF r.ok
              THEN Execute(body, answers, i + 1, r.page, Append(ops, r.entry))
              ELSE [ok |-> FALSE, error |-> r.error, page |-> r.page,
                    ops |-> Append(ops, r.entry)] :
              r \in {Statement(page, body[i], answers[i])}} : TRUE

Stmt(op, arg, value, timeout, delay, seconds) ==
    [op |-> op, arg |-> arg, value |-> value, timeout |-> timeout,
     delay |-> delay, seconds |-> seconds]

\* The browser's answers to the statements body[i..]: every answer to every
\* statement that is reached; a statement behind a failed one is never
\* reached, and its answer is written Nominal.
RECURSIVE AnswerSeqs(_, _, _)
AnswerSeqs(body, i, page) ==
    IF i > Len(body) THEN {<< >>}
    ELSE UNION {IF r[2].ok
                THEN {<<r[1]>> \o rest : rest \in AnswerSeqs(body, i + 1, r[2].page)}
                ELSE {<<r[1]>> \o [j \in 1..(Len(body) - i) |-> Nominal]} :
                r \in {<<a, Statement(page, body[i], a)>> : a \in AnswersFor(body[i].op)}}

(***************************************************************************)
(* class OpenEndedTask                                                     *)
(***************************************************************************)
OpenEndedTask_init(seed, start_url, goal) ==
    [class |-> "OpenEndedTask", start_url |-> start_url, goal |-> goal]
        @@ AbstractBrowserTask_init(seed)

\* variant: the navigation is given the task's configured timeout
OpenEndedTask_setup_body_configured(self) ==
    << Stmt("goto", self.start_url, None, self.timeout, 0, 0) >>

OpenEndedTask_setup_body(self) ==
    << Stmt("goto", self.start_url, None, 10000, 0, 0) >>

\* variant: setup raises the task's timeout to that of its navigation
OpenEndedTask_setup_retime(self, page, answers) ==
    LET r == Execute(OpenEndedTask_setup_body(self), answers, 1, page, << >>)
        new == [self EXCEPT !.timeout = 10000]
    IN  IF r.ok
        THEN Return(<<self.goal, EmptyDict>>, new, r.page, r.ops, << >>)
        ELSE Raise(r.error, new, r.page, r.ops, << >>)

OpenEndedTask_setup(self, page, answers) ==
    LET r == Execute(OpenEndedTask_setup_body(self), answers, 1, page, << >>)
    IN  IF r.ok
        THEN Return(<<self.goal, EmptyDict>>, self, r.page, r.ops, << >>)
        ELSE Raise(r.error, self, r.page, r.ops, << >>)

\* variant: teardown releases what setup acquired, and fails without it
OpenEndedTask_teardown_strict(self, page) ==
    IF page.url = "about:blank"
    THEN Raise("AttributeError", self, page, << >>, << >>)
    ELSE Return(None, self, page, << >>, << >>)

OpenEndedTask_teardown(self, page) ==
    Return(None, self, page, << >>, << >>)

\* variant: the loop tests the message text and not the role
RECURSIVE OpenEndedTask_validate_loop_anyrole(_, _)
OpenEndedTask_validate_loop_anyrole(chat_messages, i) ==
    IF i > Len(chat_messages) THEN FALSE
    ELSE IF chat_messages[i].message = "exit"
         THEN TRUE
         ELSE OpenEndedTask_validate_loop_anyrole(chat_messages, i + 1)

\* the for loop of validate: TRUE when it leaves through the break
RECURSIVE OpenEndedTask_validate_loop(_, _)
OpenEndedTask_validate_loop(chat_messages, i) ==
    IF i > Len(chat_messages) THEN FALSE
    ELSE IF chat_messages[i].role = "user" /\ chat_messages[i].message = "exit"
         THEN TRUE
         ELSE OpenEndedTask_validate_loop(chat_messages, i + 1)

\* variant: validate consumes the messages it has scanned
OpenEndedTask_validate_consume(self, page, chat_messages) ==
    LET done == OpenEndedTask_validate_loop(chat_messages, 1)
    IN  Return(<<0, done, "", EmptyDict>>, self, page, << >>, << >>)

OpenEndedTask_validate(self, page, chat_messages) ==
    LET done == OpenEndedTask_validate_loop(chat_messages, 1)
    IN  Return(<<0, done, "", EmptyDict>>, self, page, << >>, chat_messages)

(***************************************************************************)
(* class OnshapeTask                                                       *)
(***************************************************************************)
OnshapeTask_init(seed, email, password, cad_id, goal) ==
    [class |-> "OnshapeTask", email |-> email, password |-> password,
     cad_id |-> cad_id, goal |-> goal]
        @@ AbstractBrowserTask_init(seed)

\* variant: the password is filled in before the email
OnshapeTask_setup_body_swapped(self) ==
    << Stmt("goto", "https://cad.onshape.com/signin", None, 10000, 0, 0),
       Stmt("fill", "input[name='password']", self.password, 0, 0, 0),
       Stmt("fill", "input[name='email']", self.email, 0, 0, 0),
       Stmt("click", "button[type='submit']", None, 0, 0, 0),
       Stmt("click", "text=Test", None, 0, 0, 0),
       Stmt("sleep", None, None, 0, 0, 3),
       Stmt("press", "Shift+5", None, 0, 500, 0),
       Stmt("sleep", None, None, 0, 0, 1),
       Stmt("press", "Shift+s", None, 0, 100, 0),
       Stmt("click", "text=Top", None, 0, 100, 0) >>

OnshapeTask_setup_body(self) ==
    << Stmt("goto", "https://cad.onshape.com/signin", None, 10000, 0, 0),
       Stmt("fill", "input[name='email']", self.email, 0, 0, 0),
       Stmt("fill", "input[name='password']", self.password, 0, 0, 0),
       Stmt("click", "button[type='submit']", None, 0, 0, 0),
       Stmt("click", "text=Test", None, 0, 0, 0),
       Stmt("sleep", None, None, 0, 0, 3),
       Stmt("press", "Shift+5", None, 0, 500, 0),
       Stmt("sleep", None, None, 0, 0, 1),
       Stmt("press", "Shift+s", None, 0, 100, 0),
       Stmt("click", "text=Top", None, 0, 100, 0) >>

\* variant: setup catches the errors of the page and returns the goal
OnshapeTask_setup_lenient(self, page, answers) ==
    LET r == Execute(OnshapeTask_setup_body(self), answers, 1, page, << >>)
    IN  Return(<<self.goal, EmptyDict>>, self, r.page, r.ops, << >>)

OnshapeTask_setup(self, page, answers) ==
    LET r == Execute(OnshapeTask_setup_body(self), answers, 1, page, << >>)
    IN  IF r.ok
        THEN Return(<<self.goal, EmptyDict>>, self, r.page, r.ops, << >>)
        ELSE Raise(r.error, self, r.page, r.ops, << >>)

RECURSIVE OnshapeTask_validate_loop(_, _)
OnshapeTask_validate_loop(chat_messages, i) ==
    IF i > Len(chat_messages) THEN FALSE
    ELSE IF chat_messages[i].role = "user" /\ chat_messages[i].message = "exit"
         THEN TRUE
         ELSE OnshapeTask_validate_loop(chat_messages, i + 1)

\* variant: validate draws from the task's RNG
OnshapeTask_validate_random(self, page, chat_messages) ==
    LET done == OnshapeTask_validate_loop(chat_messages, 1)
    IN  Return(<<0, done, "", EmptyDict>>,
               [self EXCEPT !.random = RandomState_advance(@)], page, << >>, chat_messages)

OnshapeTask_validate(self, page, chat_messages) ==
    LET done == OnshapeTask_validate_loop(chat_messages, 1)
    IN  Return(<<0, done, "", EmptyDict>>, self, page, << >>, chat_messages)

(***************************************************************************)
(* Method resolution: the method the call self.m(...) runs.                *)
(***************************************************************************)
Task_setup_body(self) ==
    IF self.class = "OpenEndedTask" THEN OpenEndedTask_setup_body(self)
    ELSE OnshapeTask_setup_body(self)

Task_setup(self, page, answers) ==
    IF self.class = "OpenEndedTask" THEN OpenEndedTask_setup(self, page, answers)
    ELSE OnshapeTask_setup(self, page, answers)

Task_validate(self, page, chat_messages) ==
    IF self.class = "OpenEndedTask" THEN OpenEndedTask_validate(self, page, chat_messages)
    ELSE OnshapeTask_validate(self, page, chat_messages)

Task_cheat(self, page, chat_messages) ==
    AbstractBrowserTask_cheat(self, page, chat_messages)

Task_teardown(self, page) ==
    IF self.class = "OpenEndedTask" THEN OpenEndedTask_teardown(self, page)
    ELSE AbstractBrowserTask_teardown(self, page)

\* the constructor call the arguments ctor stand for
Construct(args) ==
    IF args.class = "OpenEndedTask"
    THEN OpenEndedTask_init(args.seed, args.start_url, args.goal)
    ELSE OnshapeTask_init(args.seed, args.email, args.password, args.cad_id, args.goal)

CtorArgs ==
    [class : {"OpenEndedTask"}, seed : Seeds, start_url : Urls, goal : Goals]
      \cup
    [class : {"OnshapeTask"}, seed : Seeds, email : Emails, password : Passwords,
     cad_id : CadIds, goal : Goals]

(***************************************************************************)
(* State.                                                                  *)
(***************************************************************************)
VARIABLES
    ctor,      \* instance -> the arguments it was constructed with
    tasks,     \* instance -> the task object (its attributes)
    samples,   \* instance -> the values drawn from its RNG so far, in order
    page,      \* the browser page the environment passes to the methods
    last,      \* the latest method call: which, its arguments and its outcome
    calls,     \* method name -> number of calls made so far
    phase      \* the environment driver's position in the episode

vars == <<ctor, tasks, samples, page, last, calls, phase>>

Methods == {"setup", "validate", "cheat", "teardown"}

NCalls == calls["setup"] + calls["validate"] + calls["cheat"] + calls["teardown"]

NoCall ==
    [inst |-> 0, op |-> "construct", outcome |-> "return", error |-> None,
     result |-> None, ops |-> << >>, arg |-> << >>, chat |-> << >>]

Called(i, op, arg, r) ==
    [inst |-> i, op |-> op, outcome |-> r.outcome, error |-> r.error,
     result |-> r.result, ops |-> r.ops, arg |-> arg, chat |-> r.chat]

InitWith(insts) ==
    /\ tasks = [i \in DOMAIN ctor |-> Construct(ctor[i])]
    /\ DOMAIN ctor = insts
    /\ samples = [i \in insts |-> << >>]
    /\ page = NewPage(tasks[1])
    /\ last = NoCall
    /\ calls = [m \in Methods |-> 0]
    /\ phase = "Created"

Init ==
    /\ ctor \in [{1} -> CtorArgs]
    /\ InitWith({1})

(***************************************************************************)
(* The method calls.                                                       *)
(***************************************************************************)
Effect(i, op, arg, r) ==
    /\ tasks' = [tasks EXCEPT ![i] = r.self]
    /\ page' = r.page
    /\ last' = Called(i, op, arg, r)
    /\ calls' = [calls EXCEPT ![op] = @ + 1]
    /\ UNCHANGED <<ctor, samples>>

Setup(i) ==
    /\ \E r \in {Task_setup(tasks[i], page, answers) :
                    answers \in AnswerSeqs(Task_setup_body(tasks[i]), 1, page)} :
          Effect(i, "setup", << >>, r)

Validate(i) ==
    /\ \E chat_messages \in Chats :
          \E r \in {Task_validate(tasks[i], page, chat_messages)} :
              Effect(i, "validate", chat_messages, r)

Cheat(i) ==
    /\ \E chat_messages \in Chats :
          \E r \in {Task_cheat(tasks[i], page, chat_messages)} :
              Effect(i, "cheat", chat_messages, r)

Teardown(i) ==
    /\ \E r \in {Task_teardown(tasks[i], page)} : Effect(i, "teardown", << >>, r)

\* the owner of the instance draws one value from self.random
Sample(i) ==
    /\ Len(samples[i]) < MaxSamples
    /\ samples' = [samples EXCEPT ![i] = Append(@, RandomState_randint(tasks[i].random))]
    /\ tasks' = [tasks EXCEPT ![i].random = RandomState_advance(@)]
    /\ UNCHANGED <<ctor, page, last, calls, phase>>

(***************************************************************************)
(* Spec: the object by itself.  Python lets any method be called at any    *)
(* time, in any order.                                                     *)
(***************************************************************************)
CallSetup == NCalls < MaxCalls /\ \E i \in DOMAIN tasks : Setup(i) /\ UNCHANGED phase

CallValidate == NCalls < MaxCalls /\ \E i \in DOMAIN tasks : Validate(i) /\ UNCHANGED phase

CallCheat == NCalls < MaxCalls /\ \E i \in DOMAIN tasks : Cheat(i) /\ UNCHANGED phase

CallTeardown == NCalls < MaxCalls /\ \E i \in DOMAIN tasks : Teardown(i) /\ UNCHANGED phase

Next == CallSetup \/ CallValidate \/ CallCheat \/ CallTeardown

Spec == Init /\ [][Next]_vars

(***************************************************************************)
(* SpecPair: two instances of one variant, constructed with the same       *)
(* arguments except possibly the seed, called and sampled in any order.    *)
(***************************************************************************)
SameButSeed(a, b) == [a EXCEPT !.seed = 0] = [b EXCEPT !.seed = 0]

\* one choice of the arguments other than the seed, for each variant
PairArgs ==
    [class : {"OpenEndedTask"}, seed : Seeds, start_url : {"https://example.com"},
     goal : {"find the title"}]
      \cup
    [class : {"OnshapeTask"}, seed : Seeds, email : Emails, password : Passwords,
     cad_id : {"cad1"}, goal : {None}]

InitPair ==
    /\ ctor \in {c \in [{1, 2} -> PairArgs] : SameButSeed(c[1], c[2])}
    /\ InitWith({1, 2})

DrawSample == \E i \in DOMAIN tasks : Sample(i)

PairSetup == NCalls < MaxPairCalls /\ \E i \in DOMAIN tasks : Setup(i) /\ UNCHANGED phase

PairValidate == NCalls < MaxPairCalls /\ \E i \in DOMAIN tasks : Validate(i) /\ UNCHANGED phase

PairCheat == NCalls < MaxPairCalls /\ \E i \in DOMAIN tasks : Cheat(i) /\ UNCHANGED phase

PairTeardown == NCalls < MaxPairCalls /\ \E i \in DOMAIN tasks : Teardown(i) /\ UNCHANGED phase

NextPair == PairSetup \/ PairValidate \/ PairCheat \/ PairTeardown \/ DrawSample

SpecPair == InitPair /\ [][NextPair]_vars

(***************************************************************************)
(* SpecDriver: the environment driver of one episode.  It constructs the   *)
(* task, calls setup once, then validate (and possibly cheat) until a      *)
(* validate call returns done, and finally teardown, whatever happened.    *)
(***************************************************************************)
DriverSetup ==
    /\ phase = "Created"
    /\ Setup(1)
    /\ phase' = IF last'.outcome = "return" THEN "SetUp" ELSE "SetupFailed"

DriverValidate ==
    /\ phase \in {"SetUp", "Validating"}
    /\ NCalls < MaxEpisode
    /\ Validate(1)
    /\ phase' = IF last'.result[2] THEN "Finished" ELSE "Validating"

DriverCheat ==
    /\ phase \in {"SetUp", "Validating"}
    /\ NCalls < MaxEpisode
    /\ Cheat(1)
    /\ UNCHANGED phase

\* variant: the driver skips teardown when setup failed
DriverTeardown_skipping ==
    /\ phase \in {"SetUp", "Validating", "Finished"}
    /\ Teardown(1)
    /\ phase' = "TornDown"

DriverTeardown ==
    /\ phase \in {"SetUp", "SetupFailed", "Validating", "Finished"}
    /\ Teardown(1)
    /\ phase' = "TornDown"

NextDriver == DriverSetup \/ DriverValidate \/ DriverCheat \/ DriverTeardown

SpecDriver ==
    /\ Init
    /\ [][NextDriver]_vars
    /\ WF_vars(DriverSetup)
    /\ WF_vars(DriverTeardown)

(***************************************************************************)
(* Vocabulary of the properties.                                           *)
(***************************************************************************)
\* the errors a failed page operation raises out of setup
SetupError == {"TimeoutError", "TargetClosedError"}

\* the error of a method that is not implemented
UnsupportedOperation == "NotImplementedError"

ClassOf(i) == tasks[i].class

Stepped(op) == calls'[op] = calls[op] + 1

IsExit(m) == m.role = "user" /\ m.message = "exit"

(***************************************************************************)
(* C1: OpenEndedTask.validate returns reward 0, message "" and info {}     *)
(* for every chat, and done is true exactly when some message of the chat  *)
(* has role "user" and message "exit".                                     *)
(***************************************************************************)
C1_ValidateResult ==
    (last.op = "validate" /\ ClassOf(last.inst) = "OpenEndedTask") =>
        /\ last.outcome = "return"
        /\ last.result =
             <<0, \E k \in DOMAIN last.arg : IsExit(last.arg[k]), "", EmptyDict>>

\* validate was given two qualifying "exit" messages and reported done
C1_Witness ==
    /\ last.op = "validate"
    /\ ClassOf(last.inst) = "OpenEndedTask"
    /\ Len(last.arg) = 2
    /\ IsExit(last.arg[1]) /\ IsExit(last.arg[2])
    /\ last.result[2] = TRUE

(***************************************************************************)
(* C3: cheat, on either variant (both inherit the base method), in any     *)
(* lifecycle state and for any chat, raises the unsupported-operation      *)
(* error, issues no page operation and changes neither page nor task.      *)
(***************************************************************************)
C3_CheatUnsupported ==
    [][Stepped("cheat") =>
          /\ last'.op = "cheat"
          /\ last'.outcome = "raise"
          /\ last'.error = UnsupportedOperation
          /\ last'.ops = << >>
          /\ last'.chat = last'.arg
          /\ page' = page
          /\ tasks' = tasks]_vars

\* cheat was called on a task that had been torn down before
C3_Witness ==
    /\ last.op = "cheat"
    /\ calls["teardown"] >= 1
    /\ last.error = UnsupportedOperation

(***************************************************************************)
(* C4: teardown returns normally in every lifecycle state: before setup,   *)
(* after a failed setup, after validate calls, after an earlier teardown.  *)
(***************************************************************************)
C4_TeardownNeverRaises ==
    last.op = "teardown" => (last.outcome = "return" /\ last.error = None)

\* teardown was called a second time on a task that was never set up
C4_Witness ==
    /\ last.op = "teardown"
    /\ calls["teardown"] = 2
    /\ calls["setup"] = 0
    /\ last.outcome = "return"

(***************************************************************************)
(* C6: the configuration of every instance is viewport 1280x720, slow_mo   *)
(* 1000, timeout 5000, no locale and no timezone, after construction and   *)
(* after every sequence of calls.                                          *)
(***************************************************************************)
C6_Configuration ==
    \A i \in DOMAIN tasks :
        /\ tasks[i].viewport = [width |-> 1280, height |-> 720]
        /\ tasks[i].slow_mo = 1000
        /\ tasks[i].timeout = 5000
        /\ tasks[i].locale = None
        /\ tasks[i].timezone_id = None

\* a setup that ran its page operations has been followed by another call
C6_Witness ==
    /\ calls["setup"] = 1
    /\ NCalls = MaxCalls
    /\ last.op # "setup"
    /\ page.url # "about:blank"

(***************************************************************************)
(* C5 as stated: whenever a navigation or in-page action issued by setup   *)
(* cannot complete within the task's configured timeout (self.timeout),    *)
(* or its element is absent, setup raises and returns no (goal, info).     *)
(***************************************************************************)
C5_AsStated ==
    last.op = "setup" =>
        \A k \in DOMAIN last.ops :
            LET e == last.ops[k]
            IN  (/\ e.op \in {"goto", "fill", "click"}
                 /\ (e.answer.dur > tasks[last.inst].timeout \/ e.answer.fault = "absent"))
                => (last.outcome = "raise" /\ last.result = None)

(***************************************************************************)
(* C5, amended: the navigation of setup is bounded by its own timeout of   *)
(* 10000 ms, a fill or click by the page's default timeout.  Whenever an   *)
(* operation of setup cannot complete within that bound of its own, or     *)
(* its element is absent, it is the last operation setup issues, setup     *)
(* raises the page's error and returns no (goal, info); no operation       *)
(* blocks longer than its bound.                                           *)
(***************************************************************************)
C5_SetupFailure ==
    last.op = "setup" =>
        \A k \in DOMAIN last.ops :
            LET e == last.ops[k]
            IN  /\ e.op = "goto" => e.timeout = 10000
                /\ e.op \in {"fill", "click"} => e.timeout = page.default_timeout
                /\ e.op \in {"goto", "fill", "click"} => e.took <= e.timeout
                /\ (/\ e.op \in {"goto", "fill", "click"}
                    /\ (e.answer.dur > e.timeout \/ e.answer.fault = "absent"))
                   => /\ last.outcome = "raise"
                      /\ last.error \in SetupError
                      /\ last.result = None
                      /\ k = Len(last.ops)

\* a click of the scripted setup found no element, and setup raised
C5_Witness ==
    /\ last.op = "setup"
    /\ last.outcome = "raise"
    /\ Len(last.ops) = 5
    /\ last.ops[5].op = "click"
    /\ last.ops[5].answer.fault = "absent"
    /\ last.ops[1].answer.dur > tasks[last.inst].timeout

(***************************************************************************)
(* C8: validate, on either variant, issues no page operation and leaves    *)
(* the page, the task and the chat list it was given as they were; two     *)
(* calls in a row with the same chat return the same result.               *)
(***************************************************************************)
C8_ValidatePure ==
    [][Stepped("validate") =>
          /\ last'.op = "validate"
          /\ last'.ops = << >>
          /\ last'.chat = last'.arg
          /\ page' = page
          /\ tasks' = tasks
          /\ (last.op = "validate" /\ last.inst = last'.inst /\ last.arg = last'.arg)
                => (last'.outcome = last.outcome /\ last'.result = last.result)]_vars

\* validate was called twice, the second time on a chat holding an "exit"
C8_Witness ==
    /\ last.op = "validate"
    /\ calls["validate"] = 2
    /\ ClassOf(last.inst) = "OnshapeTask"
    /\ last.result[2] = TRUE

(***************************************************************************)
(* C9: a setup of the open-ended task that returns has issued exactly one  *)
(* page operation, the navigation to start_url with a timeout of 10000     *)
(* ms, has left the page at start_url and returns (goal, {}) with the      *)
(* goal given to the constructor; validate(page, []) called right after    *)
(* it returns (0, False, "", {}).                                          *)
(***************************************************************************)
C9_SetupReturned ==
    (last.op = "setup" /\ ClassOf(last.inst) = "OpenEndedTask" /\ last.outcome = "return") =>
        /\ Len(last.ops) = 1
        /\ last.ops[1].op = "goto"
        /\ last.ops[1].arg = ctor[last.inst].start_url
        /\ last.ops[1].timeout = 10000
        /\ page.url = ctor[last.inst].start_url
        /\ last.result = <<ctor[last.inst].goal, EmptyDict>>

C9_ValidateAfterSetup ==
    (/\ last.op = "setup" /\ last.outcome = "return"
     /\ ClassOf(last.inst) = "OpenEndedTask"
     /\ Stepped("validate") /\ last'.inst = last.inst /\ last'.arg = << >>)
    => (last'.outcome = "return" /\ last'.result = <<0, FALSE, "", EmptyDict>>)

C9_OpenEndedSetup == [] C9_SetupReturned /\ [][C9_ValidateAfterSetup]_vars

\* validate(page, []) right after the setup of a task constructed without goal
C9_Witness ==
    /\ last.op = "validate" /\ last.arg = << >>
    /\ ClassOf(last.inst) = "OpenEndedTask"
    /\ ctor[last.inst].goal = None
    /\ calls["setup"] = 1 /\ calls["validate"] = 1 /\ NCalls = 2
    /\ page.url = ctor[last.inst].start_url

(***************************************************************************)
(* C10: the operations a setup of the Onshape task has issued are a        *)
(* prefix of one fixed sequence, which depends on email and password       *)
(* only; every operation but the last one issued has completed; setup      *)
(* returns (goal, {}) exactly when all ten were issued and completed, and  *)
(* raises, returning nothing, when the last one issued failed.             *)
(***************************************************************************)
C10_Sequence(args) ==
    << <<"goto", "https://cad.onshape.com/signin", None>>,
       <<"fill", "input[name='email']", args.email>>,
       <<"fill", "input[name='password']", args.password>>,
       <<"click", "button[type='submit']", None>>,
       <<"click", "text=Test", None>>,
       <<"sleep", None, None>>,
       <<"press", "Shift+5", None>>,
       <<"sleep", None, None>>,
       <<"press", "Shift+s", None>>,
       <<"click", "text=Top", None>> >>

C10_ScriptedSetup ==
    (last.op = "setup" /\ ClassOf(last.inst) = "OnshapeTask") =>
        LET want == C10_Sequence(ctor[last.inst])
            n == Len(last.ops)
        IN  /\ n \in 1..10
            /\ \A k \in 1..n :
                  <<last.ops[k].op, last.ops[k].arg, last.ops[k].value>> = want[k]
            /\ \A k \in 1..(n - 1) : last.ops[k].ok
            /\ (last.outcome = "return") <=> (n = 10 /\ last.ops[n].ok)
            /\ (last.outcome = "return") => last.result = <<ctor[last.inst].goal, EmptyDict>>
            /\ (last.outcome = "raise") => (~last.ops[n].ok /\ last.result = None)

\* the first keyboard shortcut failed: seven operations issued, no goal
C10_Witness ==
    /\ last.op = "setup" /\ ClassOf(last.inst) = "OnshapeTask"
    /\ ctor[last.inst].cad_id # None
    /\ last.outcome = "raise"
    /\ Len(last.ops) = 7

(***************************************************************************)
(* C7: two instances constructed with the same arguments, seed included,   *)
(* have drawn the same values from their RNGs, position by position,       *)
(* whatever lifecycle calls were made on either of them in between.        *)
(***************************************************************************)
C7_Determinism ==
    \A i, j \in DOMAIN tasks :
        ctor[i] = ctor[j] =>
            \A k \in (DOMAIN samples[i]) \cap (DOMAIN samples[j]) :
                samples[i][k] = samples[j][k]

\* both drew twice, and a lifecycle call was made on the first in between
C7_Witness ==
    /\ DOMAIN tasks = {1, 2}
    /\ ctor[1] = ctor[2]
    /\ Len(samples[1]) = 2 /\ Len(samples[2]) = 2
    /\ last.inst = 1 /\ last.op \in {"setup", "validate"}

(***************************************************************************)
(* C2: in an episode run by the driver, setup is called exactly once and   *)
(* before any validate, validate any number of times after a setup that    *)
(* returned, teardown exactly once; teardown can be reached from every     *)
(* earlier state, a failed setup included, and is reached; after it no     *)
(* call changes page, task or call record.                                 *)
(***************************************************************************)
C2_Conforms ==
    /\ phase \in {"Created", "SetUp", "SetupFailed", "Validating", "Finished", "TornDown"}
    /\ calls["setup"] = (IF phase = "Created" THEN 0 ELSE 1)
    /\ calls["teardown"] = (IF phase = "TornDown" THEN 1 ELSE 0)
    /\ phase \in {"Created", "SetupFailed"} => calls["validate"] = 0 /\ calls["cheat"] = 0
    /\ phase = "Created" => ENABLED DriverSetup
    /\ phase \in {"SetUp", "SetupFailed", "Validating", "Finished"} => ENABLED DriverTeardown

C2_Order ==
    /\ Stepped("validate") => (calls["setup"] = 1 /\ phase \in {"SetUp", "Validating"})
    /\ phase = "TornDown" => UNCHANGED <<tasks, page, last, calls>>

====
